---- MODULE Spec2Model ----
(***************************************************************************)
(* WeatherNova data_loader.py: a batch job that reads a parquet file of    *)
(* taxi trips, keeps the trips inside the Bronx, and writes Location nodes *)
(* and TRIP relationships to Neo4j, retried by main() up to ten times.     *)
(*                                                                         *)
(* Units: trip_distance is counted in hundredths of a mile and fare_amount *)
(* in cents, so the thresholds 0.1 and 2.5 of the source are 10 and 250.   *)
(* A raw timestamp is the text found in the file; a parsed one is the      *)
(* ISO text of the datetime that pd.to_datetime builds from it.            *)
(***************************************************************************)
EXTENDS Integers, Sequences, FiniteSets, TLC

VARIABLES
    pc,            \* position of main(): loop, connect, read, project, filter,
                   \* parse, session, nodes, rels, close, except, sleep, done;
                   \* writer when the writer is driven on its own
    attempt,       \* main's counter of failed attempts
    err,           \* the exception in flight ("none" when there is none)
    driver,        \* the driver built by this attempt: none, open, closed
    session,       \* the session of load_transform_file: none, open, closed
    file,          \* the parquet file on disk
    trips,         \* the data frame `trips` of load_transform_file
    locs,          \* the ids the node loop iterates over
    idx,           \* position of the running for loop
    store,         \* the graph: nodes (names, by node id) and relationships
    started,       \* history: DataLoader constructions begun
    delays,        \* history: time.sleep(10) calls made
    loadRuns,      \* history: pq.read_table calls made
    writeRuns,     \* history: sessions opened
    onlyConnFail,  \* history: every failure so far was verify_connectivity
    succeeded,     \* history: main reached its break
    partialWrite,  \* history: an attempt raised after its first session.run
    calls,         \* harness: the writer calls issued so far
    prevStore,     \* harness: the store before the last writer call
    outcome,       \* harness: what the last writer call returned
    orders,        \* harness: two orders of the same ids, the part still to run
    storeB         \* harness: the store the second order runs on

vars == <<pc, attempt, err, driver, session, file, trips, locs, idx, store,
          started, delays, loadRuns, writeRuns, onlyConnFail, succeeded,
          partialWrite, calls, prevStore, outcome, orders, storeB>>

\* ------------------------------------------------------------ bounds
MaxRows == 2
MaxFairRows == 1
MaxTableRows == 2
MaxCalls == 4
MaxOrder == 3

\* ------------------------------------------------- program constants
total_attempts == 10
MinDistance == 10
MinFare == 250

bronx_locations ==
    {3, 18, 20, 31, 32, 46, 47, 51, 58, 59, 60, 69, 78, 81, 94, 119, 126, 136,
     147, 159, 167, 168, 169, 174, 182, 183, 184, 185, 199, 200, 208, 212, 213,
     220, 235, 240, 241, 242, 247, 248, 250, 254, 259}

RequiredColumns ==
    {"tpep_pickup_datetime", "tpep_dropoff_datetime", "PULocationID",
     "DOLocationID", "trip_distance", "fare_amount"}

\* ------------------------------------------------------------ inputs
Row(pdt, ddt, pu, do, dist, fare) ==
    [tpep_pickup_datetime |-> pdt, tpep_dropoff_datetime |-> ddt,
     PULocationID |-> pu, DOLocationID |-> do,
     trip_distance |-> dist, fare_amount |-> fare, passenger_count |-> 1]

T0800 == "2022-03-01 08:00:00"
T0820 == "2022-03-01 08:20:00"
TBad  == "03/01/2022 08:00"

\* The rows the pipeline runs draw their files from: the end-to-end row of the
\* specification's scenario, the same trip at another fare, a trip that starts outside
\* the Bronx, a Bronx trip whose pickup time is not in the expected format, and
\* a Bronx trip of exactly 0.1 mile.
PipelineRows ==
    { Row(T0800, T0820, 3, 18, 500, 1000),
      Row(T0800, T0820, 3, 18, 500, 1250),
      Row(T0800, T0820, 1, 18, 500, 1000),
      Row(TBad,  T0820, 18, 3, 500, 1000),
      Row(T0800, T0820, 3, 18, 10, 1000) }

\* The rows the transformer alone is run on: both sides of every predicate.
TransformRows ==
    { Row(p, T0820, pu, do, dist, fare) :
        p \in {T0800}, pu \in {1, 3}, do \in {18, 2},
        dist \in {5, 10, 11}, fare \in {249, 250, 251} }

TablesOf(rows, n) == UNION {[1..k -> rows] : k \in 0..n}

AllColumns == RequiredColumns \cup {"passenger_count"}

FilesOf(rows, n) ==
    { [exists |-> FALSE, columns |-> {}, rows |-> <<>>],
      [exists |-> TRUE, columns |-> AllColumns \ {"fare_amount"}, rows |-> <<>>] }
    \cup { [exists |-> TRUE, columns |-> AllColumns, rows |-> t] : t \in TablesOf(rows, n) }

EmptyStore == [nodes |-> <<>>, rels |-> <<>>]

NoOrders == [a |-> <<>>, b |-> <<>>]

\* ------------------------------------------------------ pure helpers
RECURSIVE SelectMask(_, _)
\* Boolean indexing trips[mask]: the rows whose mask entry is true, in order.
SelectMask(frame, mask) ==
    IF frame = <<>> THEN <<>>
    ELSE LET rest == SelectMask(Tail(frame), Tail(mask))
         IN IF Head(mask) THEN <<Head(frame)>> \o rest ELSE rest

\* trips[[...six columns...]]
ProjectColumns(frame) ==
    [k \in DOMAIN frame |-> [c \in RequiredColumns |-> frame[k][c]]]

\* The mask with >= where the source has >.
BronxMask_NonStrict(frame) ==
    [k \in DOMAIN frame |->
        /\ frame[k].PULocationID \in bronx_locations
        /\ frame[k].DOLocationID \in bronx_locations
        /\ frame[k].trip_distance >= MinDistance
        /\ frame[k].fare_amount >= MinFare]

\* The mask with the pickup test left out.
BronxMask_DropoffOnly(frame) ==
    [k \in DOMAIN frame |->
        /\ frame[k].DOLocationID \in bronx_locations
        /\ frame[k].trip_distance > MinDistance
        /\ frame[k].fare_amount > MinFare]

\* The mask of lines 70-73: four element-wise tests joined with &.
BronxMask(frame) ==
    [k \in DOMAIN frame |->
        /\ frame[k].PULocationID \in bronx_locations
        /\ frame[k].DOLocationID \in bronx_locations
        /\ frame[k].trip_distance > MinDistance
        /\ frame[k].fare_amount > MinFare]

BronxFilter(frame) == SelectMask(frame, BronxMask(frame))

\* pd.to_datetime(text, format='%Y-%m-%d %H:%M:%S'): the datetime of a text in
\* that format, an error for any other text.
FormatOk(text) == text \in {T0800, T0820}

ToDatetime(text) ==
    CASE text = T0800 -> "2022-03-01T08:00:00"
      [] text = T0820 -> "2022-03-01T08:20:00"
      [] OTHER -> "NaT"

ParseOk(frame) ==
    \A k \in DOMAIN frame :
        /\ FormatOk(frame[k].tpep_pickup_datetime)
        /\ FormatOk(frame[k].tpep_dropoff_datetime)

ParseFrame(frame) ==
    [k \in DOMAIN frame |->
        [frame[k] EXCEPT !.tpep_pickup_datetime = ToDatetime(@),
                         !.tpep_dropoff_datetime = ToDatetime(@)]]

RECURSIVE Unique(_)
\* Series.unique(): the values in order of first appearance.
Unique(s) ==
    IF s = <<>> THEN <<>>
    ELSE LET front == Unique(SubSeq(s, 1, Len(s) - 1))
             last == s[Len(s)]
         IN IF \E k \in DOMAIN front : front[k] = last THEN front
            ELSE Append(front, last)

\* The ids of the pickup column alone.
LocationIds_PickupOnly(frame) ==
    Unique([k \in DOMAIN frame |-> frame[k].PULocationID])

\* pd.concat([trips['PULocationID'], trips['DOLocationID']]).unique()
LocationIds(frame) ==
    Unique([k \in DOMAIN frame |-> frame[k].PULocationID]
           \o [k \in DOMAIN frame |-> frame[k].DOLocationID])

\* The dict of lines 87-94.
TripOf(row) ==
    [PULocationID |-> row.PULocationID,
     DOLocationID |-> row.DOLocationID,
     trip_distance |-> row.trip_distance,
     fare_amount |-> row.fare_amount,
     tpep_pickup_datetime |-> row.tpep_pickup_datetime,
     tpep_dropoff_datetime |-> row.tpep_dropoff_datetime]

\* ------------------------------------------------------------- store
Count(seq, x) == Cardinality({k \in DOMAIN seq : seq[k] = x})

\* MATCH (n:Location {name: z}): the ids of the nodes named z.
NodesNamed(st, z) == {k \in DOMAIN st.nodes : st.nodes[k] = z}

\* CREATE where the source has MERGE.
MergeLocation_Create(st, location_id) ==
    [st EXCEPT !.nodes = Append(@, location_id)]

\* MERGE (l:Location {name: $location_id})
MergeLocation(st, location_id) ==
    IF NodesNamed(st, location_id) # {} THEN st
    ELSE [st EXCEPT !.nodes = Append(@, location_id)]

Edge(s, e, trip) ==
    [start |-> s, end |-> e,
     distance |-> trip.trip_distance, fare |-> trip.fare_amount,
     pickup_dt |-> trip.tpep_pickup_datetime,
     dropoff_dt |-> trip.tpep_dropoff_datetime]

RECURSIVE SeqOfSet(_)
SeqOfSet(S) ==
    IF S = {} THEN <<>>
    ELSE LET x == CHOOSE y \in S : TRUE IN <<x>> \o SeqOfSet(S \ {x})

\* CREATE where the source has MERGE: one more relationship per matched pair.
MergeTrip_Create(st, trip) ==
    LET pairs == NodesNamed(st, trip.PULocationID) \X NodesNamed(st, trip.DOLocationID)
    IN [st EXCEPT !.rels = @ \o SeqOfSet({Edge(p[1], p[2], trip) : p \in pairs})]

\* MERGE on the endpoints alone, the properties set only on creation.
MergeTrip_EndpointKey(st, trip) ==
    LET pairs == NodesNamed(st, trip.PULocationID) \X NodesNamed(st, trip.DOLocationID)
        absent == {Edge(p[1], p[2], trip) : p \in
                      {q \in pairs : \A k \in DOMAIN st.rels :
                          ~(st.rels[k].start = q[1] /\ st.rels[k].end = q[2])}}
    IN [st EXCEPT !.rels = @ \o SeqOfSet(absent)]

\* MATCH (start ...), (end ...) MERGE (start)-[:TRIP {...}]->(end): for every
\* matched pair of nodes, the relationship is created unless one with exactly
\* these properties already joins the pair. No matched pair: nothing happens.
MergeTrip(st, trip) ==
    LET pairs == NodesNamed(st, trip.PULocationID) \X NodesNamed(st, trip.DOLocationID)
        absent == {Edge(p[1], p[2], trip) : p \in
                      {q \in pairs : Count(st.rels, Edge(q[1], q[2], trip)) = 0}}
    IN [st EXCEPT !.rels = @ \o SeqOfSet(absent)]

\* session.run returns its result without raising when the statement ran,
\* whether or not it matched or created anything.
RunOutcome(st, trip) == "ok"

\* ------------------------------------------------------ the pipeline
\* main entered, the file at its path being one of `files`.
InitOn(files) ==
    /\ pc = "loop"
    /\ attempt = 0
    /\ err = "none"
    /\ driver = "none"
    /\ session = "none"
    /\ file \in files
    /\ trips = <<>>
    /\ locs = <<>>
    /\ idx = 0
    /\ store = EmptyStore
    /\ started = 0
    /\ delays = 0
    /\ loadRuns = 0
    /\ writeRuns = 0
    /\ onlyConnFail = TRUE
    /\ succeeded = FALSE
    /\ partialWrite = FALSE
    /\ calls = <<>>
    /\ prevStore = EmptyStore
    /\ outcome = "none"
    /\ orders = NoOrders
    /\ storeB = EmptyStore

Init == InitOn(FilesOf(PipelineRows, MaxRows))

harness == <<calls, prevStore, outcome, orders, storeB>>
history == <<started, delays, loadRuns, writeRuns, onlyConnFail, succeeded,
             partialWrite>>

\* The loop test with <= where the source has <.
LoopTest_OffByOne ==
    /\ pc = "loop"
    /\ pc' = IF attempt <= total_attempts THEN "connect" ELSE "done"
    /\ UNCHANGED <<attempt, err, driver, session, file, trips, locs, idx, store,
                   history, harness>>

\* while attempt < total_attempts:
LoopTest ==
    /\ pc = "loop"
    /\ pc' = IF attempt < total_attempts THEN "connect" ELSE "done"
    /\ UNCHANGED <<attempt, err, driver, session, file, trips, locs, idx, store,
                   history, harness>>

\* Control leaves the try block with exception e.
Raise(e) ==
    /\ pc' = "except"
    /\ err' = e
    /\ onlyConnFail' = (onlyConnFail /\ e = "ConnectivityError")

\* DataLoader(...): build the driver, then verify_connectivity().
Connect ==
    /\ pc = "connect"
    /\ started' = started + 1
    /\ driver' = "open"
    /\ session' = "none"
    /\ \/ /\ pc' = "read"
          /\ UNCHANGED <<err, onlyConnFail>>
       \/ Raise("ConnectivityError")
    /\ UNCHANGED <<attempt, file, trips, locs, idx, store,
                   delays, loadRuns, writeRuns, succeeded, partialWrite, harness>>

\* pq.read_table(file_path).to_pandas()
ReadTable ==
    /\ pc = "read"
    /\ loadRuns' = loadRuns + 1
    /\ IF file.exists
       THEN /\ trips' = file.rows
            /\ pc' = "project"
            /\ UNCHANGED <<err, onlyConnFail>>
       ELSE /\ Raise("LoadError")
            /\ UNCHANGED trips
    /\ UNCHANGED <<attempt, driver, session, file, locs, idx, store,
                   started, delays, writeRuns, succeeded, partialWrite, harness>>

\* trips = trips[[...]]
Project ==
    /\ pc = "project"
    /\ IF RequiredColumns \subseteq file.columns
       THEN /\ trips' = ProjectColumns(trips)
            /\ pc' = "filter"
            /\ UNCHANGED <<err, onlyConnFail>>
       ELSE /\ Raise("SchemaError")
            /\ UNCHANGED trips
    /\ UNCHANGED <<attempt, driver, session, file, locs, idx, store,
                   started, delays, loadRuns, writeRuns, succeeded, partialWrite, harness>>

\* trips = trips[(...) & (...) & (...) & (...)]
Filter ==
    /\ pc = "filter"
    /\ trips' = BronxFilter(trips)
    /\ pc' = "parse"
    /\ UNCHANGED <<attempt, err, driver, session, file, locs, idx, store,
                   history, harness>>

\* pd.to_datetime with errors='coerce': a text not in the format becomes NaT.
ParseDates_Coerce ==
    /\ pc = "parse"
    /\ trips' = ParseFrame(trips)
    /\ pc' = "session"
    /\ UNCHANGED <<attempt, err, driver, session, file, locs, idx, store,
                   history, harness>>

\* The two pd.to_datetime assignments.
ParseDates ==
    /\ pc = "parse"
    /\ IF ParseOk(trips)
       THEN /\ trips' = ParseFrame(trips)
            /\ pc' = "session"
            /\ UNCHANGED <<err, onlyConnFail>>
       ELSE /\ Raise("ParseError")
            /\ UNCHANGED trips
    /\ UNCHANGED <<attempt, driver, session, file, locs, idx, store,
                   started, delays, loadRuns, writeRuns, succeeded, partialWrite, harness>>

\* with self.driver.session() as session: and the iterable of the node loop.
OpenSession ==
    /\ pc = "session"
    /\ session' = "open"
    /\ writeRuns' = writeRuns + 1
    /\ locs' = LocationIds(trips)
    /\ idx' = 1
    /\ pc' = "nodes"
    /\ UNCHANGED <<attempt, err, driver, file, trips, store,
                   started, delays, loadRuns, onlyConnFail, succeeded, partialWrite, harness>>

\* The session used without `with`: an exception leaves it open.
RaiseInSession_Leak(e) ==
    /\ UNCHANGED session
    /\ partialWrite' = (partialWrite \/ pc = "rels" \/ idx > 1)
    /\ Raise(e)

\* An exception inside the with block: the session's __exit__ closes it.
RaiseInSession(e) ==
    /\ session' = "closed"
    /\ partialWrite' = (partialWrite \/ pc = "rels" \/ idx > 1)
    /\ Raise(e)

\* One pass of the node loop: create_location_node, or the loop ends.
CreateLocationNode ==
    /\ pc = "nodes"
    /\ \/ /\ idx <= Len(locs)
          /\ store' = MergeLocation(store, locs[idx])
          /\ idx' = idx + 1
          /\ UNCHANGED <<pc, err, session, onlyConnFail, partialWrite>>
       \/ /\ idx <= Len(locs)
          /\ RaiseInSession("WriteError")
          /\ UNCHANGED <<store, idx>>
       \/ /\ idx > Len(locs)
          /\ idx' = 1
          /\ pc' = "rels"
          /\ UNCHANGED <<store, err, session, onlyConnFail, partialWrite>>
    /\ UNCHANGED <<attempt, driver, file, trips, locs,
                   started, delays, loadRuns, writeRuns, succeeded, harness>>

\* One pass of the trip loop: create_trip_relationship, or the loop and the
\* with block end.
CreateTripRelationship ==
    /\ pc = "rels"
    /\ \/ /\ idx <= Len(trips)
          /\ store' = MergeTrip(store, TripOf(trips[idx]))
          /\ idx' = idx + 1
          /\ UNCHANGED <<pc, err, session, onlyConnFail, partialWrite>>
       \/ /\ idx <= Len(trips)
          /\ RaiseInSession("WriteError")
          /\ UNCHANGED <<store, idx>>
       \/ /\ idx > Len(trips)
          /\ session' = "closed"
          /\ pc' = "close"
          /\ UNCHANGED <<store, idx, err, onlyConnFail, partialWrite>>
    /\ UNCHANGED <<attempt, driver, file, trips, locs,
                   started, delays, loadRuns, writeRuns, succeeded, harness>>

\* close() with the break after it left out.
Close_NoBreak ==
    /\ pc = "close"
    /\ driver' = "closed"
    /\ \/ /\ pc' = "loop"
          /\ succeeded' = TRUE
          /\ UNCHANGED <<err, onlyConnFail>>
       \/ /\ Raise("CloseError")
          /\ UNCHANGED succeeded
    /\ UNCHANGED <<attempt, session, file, trips, locs, idx, store,
                   started, delays, loadRuns, writeRuns, partialWrite, harness>>

\* data_loader.close() and, when it returns, break.
Close ==
    /\ pc = "close"
    /\ driver' = "closed"
    /\ \/ /\ pc' = "done"
          /\ succeeded' = TRUE
          /\ UNCHANGED <<err, onlyConnFail>>
       \/ /\ Raise("CloseError")
          /\ UNCHANGED succeeded
    /\ UNCHANGED <<attempt, session, file, trips, locs, idx, store,
                   started, delays, loadRuns, writeRuns, partialWrite, harness>>

\* The handler with the sleep left out.
Except_NoSleep ==
    /\ pc = "except"
    /\ attempt' = attempt + 1
    /\ err' = "none"
    /\ pc' = "loop"
    /\ UNCHANGED <<driver, session, file, trips, locs, idx, store,
                   history, harness>>

\* The handler catching connection errors only: any other exception leaves main.
Except_ConnectionOnly ==
    /\ pc = "except"
    /\ IF err = "ConnectivityError"
       THEN /\ attempt' = attempt + 1
            /\ err' = "none"
            /\ pc' = "sleep"
       ELSE /\ pc' = "done"
            /\ UNCHANGED <<attempt, err>>
    /\ UNCHANGED <<driver, session, file, trips, locs, idx, store,
                   history, harness>>

\* The handler that sleeps only when a retry follows.
Except_NoSleepOnLast ==
    /\ pc = "except"
    /\ attempt' = attempt + 1
    /\ err' = "none"
    /\ pc' = IF attempt + 1 < total_attempts THEN "sleep" ELSE "loop"
    /\ UNCHANGED <<driver, session, file, trips, locs, idx, store,
                   history, harness>>

\* except Exception as e: print(...); attempt += 1
Except ==
    /\ pc = "except"
    /\ attempt' = attempt + 1
    /\ err' = "none"
    /\ pc' = "sleep"
    /\ UNCHANGED <<driver, session, file, trips, locs, idx, store,
                   history, harness>>

\* time.sleep(10)
Sleep ==
    /\ pc = "sleep"
    /\ delays' = delays + 1
    /\ pc' = "loop"
    /\ UNCHANGED <<attempt, err, driver, session, file, trips, locs, idx, store,
                   started, loadRuns, writeRuns, onlyConnFail, succeeded, partialWrite, harness>>

Next ==
    \/ LoopTest
    \/ Connect
    \/ ReadTable
    \/ Project
    \/ Filter
    \/ ParseDates
    \/ OpenSession
    \/ CreateLocationNode
    \/ CreateTripRelationship
    \/ Close
    \/ Except
    \/ Sleep

Spec == Init /\ [][Next]_vars

\* The same run under the scheduling of a sequential program: main keeps
\* executing while it has a next statement (every blocking call returns or raises).
FairInit == InitOn(FilesOf(PipelineRows, MaxFairRows))

FairSpec == FairInit /\ [][Next]_vars /\ WF_vars(Next)

\* ------------------------------------- the transformer on its own
\* load_transform_file entered on a connected loader, the file drawn from every
\* table over TransformRows; the run is followed up to the end of the transform.
TransformInit ==
    /\ pc = "read"
    /\ attempt = 0
    /\ err = "none"
    /\ driver = "open"
    /\ session = "none"
    /\ file \in FilesOf(TransformRows, MaxTableRows)
    /\ trips = <<>>
    /\ locs = <<>>
    /\ idx = 0
    /\ store = EmptyStore
    /\ started = 1
    /\ delays = 0
    /\ loadRuns = 0
    /\ writeRuns = 0
    /\ onlyConnFail = TRUE
    /\ succeeded = FALSE
    /\ partialWrite = FALSE
    /\ calls = <<>>
    /\ prevStore = EmptyStore
    /\ outcome = "none"
    /\ orders = NoOrders
    /\ storeB = EmptyStore

TransformNext ==
    \/ ReadTable
    \/ Project
    \/ Filter
    \/ ParseDates

TransformSpec == TransformInit /\ [][TransformNext]_vars

\* ------------------------------------------ the writer on its own
\* create_location_node and create_trip_relationship called directly, in any
\* order and with any argument, on an open session of a store that holds no
\* two nodes of one name.
WriterTrip(pu, do, dist, fare, pdt, ddt) ==
    [PULocationID |-> pu, DOLocationID |-> do,
     trip_distance |-> dist, fare_amount |-> fare,
     tpep_pickup_datetime |-> pdt, tpep_dropoff_datetime |-> ddt]

D0800 == ToDatetime(T0800)
D0820 == ToDatetime(T0820)

BaseTrip == WriterTrip(3, 18, 500, 1000, D0800, D0820)

\* The base trip, one variant per attribute, and the trip back.
WriterTrips ==
    { BaseTrip,
      [BaseTrip EXCEPT !.fare_amount = 1250],
      [BaseTrip EXCEPT !.trip_distance = 600],
      [BaseTrip EXCEPT !.tpep_pickup_datetime = D0820],
      [BaseTrip EXCEPT !.tpep_dropoff_datetime = D0800],
      WriterTrip(18, 3, 500, 1000, D0800, D0820) }

WriterZones == {3, 18}

WriterStores ==
    { EmptyStore,
      [nodes |-> <<3>>, rels |-> <<>>],
      [nodes |-> <<18, 3>>, rels |-> <<Edge(2, 1, BaseTrip)>>] }

WriterInit ==
    /\ pc = "writer"
    /\ attempt = 0
    /\ err = "none"
    /\ driver = "open"
    /\ session = "open"
    /\ file = [exists |-> FALSE, columns |-> {}, rows |-> <<>>]
    /\ trips = <<>>
    /\ locs = <<>>
    /\ idx = 0
    /\ store \in WriterStores
    /\ started = 1
    /\ delays = 0
    /\ loadRuns = 0
    /\ writeRuns = 1
    /\ onlyConnFail = TRUE
    /\ succeeded = FALSE
    /\ partialWrite = FALSE
    /\ calls = <<>>
    /\ prevStore = store
    /\ outcome = "none"
    /\ orders = NoOrders
    /\ storeB = EmptyStore

pipeline == <<pc, attempt, err, driver, session, file, trips, locs, idx>>

\* create_location_node(session, location_id)
UpsertLocation(location_id) ==
    /\ pc = "writer"
    /\ Len(calls) < MaxCalls
    /\ prevStore' = store
    /\ store' = MergeLocation(store, location_id)
    /\ outcome' = "ok"
    /\ calls' = Append(calls, [op |-> "location", arg |-> location_id])
    /\ UNCHANGED <<pipeline, history, orders, storeB>>

\* create_trip_relationship(session, trip)
UpsertTrip(trip) ==
    /\ pc = "writer"
    /\ Len(calls) < MaxCalls
    /\ prevStore' = store
    /\ store' = MergeTrip(store, trip)
    /\ outcome' = RunOutcome(store, trip)
    /\ calls' = Append(calls, [op |-> "trip", arg |-> trip])
    /\ UNCHANGED <<pipeline, history, orders, storeB>>

WriterNext ==
    \/ \E z \in WriterZones : UpsertLocation(z)
    \/ \E t \in WriterTrips : UpsertTrip(t)

WriterSpec == WriterInit /\ [][WriterNext]_vars

\* ------------------------------------ the node loop in two orders
\* The node loop of load_transform_file run twice from the same store, on two
\* sequences that hold the same ids (in any order, any id any number of times):
\* order a on `store`, order b on `storeB`.
CommuteZones == {3, 18, 20}

Ids(order) == {order[k] : k \in DOMAIN order}

OrderPairs ==
    { p \in [a : TablesOf(CommuteZones, MaxOrder), b : TablesOf(CommuteZones, MaxOrder)] :
        Ids(p.a) = Ids(p.b) }

CommuteInit ==
    /\ pc = "commute"
    /\ attempt = 0
    /\ err = "none"
    /\ driver = "open"
    /\ session = "open"
    /\ file = [exists |-> FALSE, columns |-> {}, rows |-> <<>>]
    /\ trips = <<>>
    /\ locs = <<>>
    /\ idx = 0
    /\ store \in WriterStores
    /\ started = 1
    /\ delays = 0
    /\ loadRuns = 0
    /\ writeRuns = 1
    /\ onlyConnFail = TRUE
    /\ succeeded = FALSE
    /\ partialWrite = FALSE
    /\ calls = <<>>
    /\ prevStore = store
    /\ outcome = "none"
    /\ orders \in OrderPairs
    /\ storeB = store

\* for location_id in <order a>: self.create_location_node(session, location_id)
RunOrderA ==
    /\ pc = "commute"
    /\ orders.a # <<>>
    /\ store' = MergeLocation(store, Head(orders.a))
    /\ orders' = [orders EXCEPT !.a = Tail(@)]
    /\ UNCHANGED <<pipeline, history, calls, prevStore, outcome, storeB>>

\* for location_id in <order b>: self.create_location_node(session, location_id)
RunOrderB ==
    /\ pc = "commute"
    /\ orders.b # <<>>
    /\ storeB' = MergeLocation(storeB, Head(orders.b))
    /\ orders' = [orders EXCEPT !.b = Tail(@)]
    /\ UNCHANGED <<pipeline, history, calls, prevStore, outcome, store>>

CommuteNext ==
    \/ RunOrderA
    \/ RunOrderB

CommuteSpec == CommuteInit /\ [][CommuteNext]_vars

\* ============================================================ claims
AttemptOver == pc \in {"except", "sleep", "loop", "done"}

\* C1: in every attempt, once the driver has been opened, close has been called
\* on it by the time the attempt ends, whether the attempt succeeded or raised.
C1_CloseOnEveryExit ==
    (AttemptOver /\ driver # "none") => driver = "closed"

\* C2: main starts at most 10 attempts: the number of DataLoader constructions
\* begun is between 0 and 10 in every reachable state.
C2_AtMostTenAttempts == started \in 0..10

C2_TenthAttemptFailed ==
    started = 10 /\ pc = "done" /\ ~succeeded /\ ~onlyConnFail

\* C3: once an attempt has completed connect, load, transform, write and close,
\* main is over: no connection is opened, no session is opened, no statement is
\* run, no delay is taken and the store stays as it is.
C3_StopsOnSuccess ==
    [][succeeded =>
         /\ pc' = "done"
         /\ UNCHANGED <<started, delays, loadRuns, writeRuns, store, attempt>>]_vars

C3_SucceededAfterRetry ==
    succeeded /\ pc = "done" /\ attempt > 0 /\ store.rels # <<>>

\* C4: while no attempt has failed anywhere but in the connectivity check, no
\* file has been loaded and no session opened when an attempt is over, every
\* failed attempt has been followed by exactly one delay before the next one
\* starts, and when attempt k+1 succeeds (k < 10 failures before it) there were
\* exactly k+1 connection attempts, k delays, one load and one write phase.
C4_ConnectRetryScenario ==
    onlyConnFail =>
        /\ (pc \in {"loop", "connect"} /\ ~succeeded) =>
              /\ started = attempt
              /\ delays = attempt
              /\ loadRuns = 0
              /\ writeRuns = 0
              /\ store = EmptyStore
        /\ pc = "sleep" => (started = attempt /\ delays = attempt - 1)
        /\ succeeded =>
              /\ attempt < 10
              /\ started = attempt + 1
              /\ delays = attempt
              /\ loadRuns = 1
              /\ writeRuns = 1

C4_FourthAttemptSucceeds ==
    /\ succeeded /\ onlyConnFail /\ attempt = 3
    /\ started = 4 /\ delays = 3 /\ store.rels # <<>>

\* C5: main always reaches its end and stays there with no exception in flight,
\* after a success or after 10 failed attempts.
C5_TerminatesNormally ==
    <>[](/\ pc = "done"
         /\ err = "none"
         /\ (succeeded \/ attempt = 10))

C5_ExhaustedReturn ==
    pc = "done" /\ ~succeeded /\ attempt = 10 /\ err = "none"

\* C6: after the filter, a row of the file is in the frame as often as it is in
\* the file if its pickup and dropoff zones are Bronx zones, its distance is
\* above 0.1 and its fare above 2.5, and not at all otherwise; a row at exactly
\* 0.1 or exactly 2.5 is not in the frame.
KeepRow(r) ==
    /\ r.PULocationID \in bronx_locations
    /\ r.DOLocationID \in bronx_locations
    /\ ~(r.trip_distance <= 10)
    /\ ~(r.fare_amount <= 250)

SixColumns(r) == [c \in RequiredColumns |-> r[c]]

C6_RetainIff ==
    pc = "parse" =>
        /\ \A k \in DOMAIN file.rows :
              LET r == SixColumns(file.rows[k])
                  inFile == Cardinality({m \in DOMAIN file.rows : SixColumns(file.rows[m]) = r})
              IN Count(trips, r) = IF KeepRow(r) THEN inFile ELSE 0
        /\ \A k \in DOMAIN trips :
              /\ trips[k].trip_distance # 10
              /\ trips[k].fare_amount # 250
              /\ \E m \in DOMAIN file.rows : SixColumns(file.rows[m]) = trips[k]

C6_BoundaryRowDropped ==
    /\ pc = "parse"
    /\ Len(file.rows) = 2
    /\ Len(trips) = 1
    /\ trips[1].trip_distance = 11 /\ trips[1].fare_amount = 251
    /\ \E k \in DOMAIN file.rows :
          /\ file.rows[k].PULocationID = 3 /\ file.rows[k].DOLocationID = 18
          /\ file.rows[k].trip_distance = 10 /\ file.rows[k].fare_amount = 251

\* ---- writer claims
LastCall == calls[Len(calls)]
CallBefore == calls[Len(calls) - 1]
NodeCount(st, z) == Cardinality(NodesNamed(st, z))
HasEndpoints(st, trip) ==
    NodesNamed(st, trip.PULocationID) # {} /\ NodesNamed(st, trip.DOLocationID) # {}
\* The relationships from a node named as the pickup to one named as the dropoff
\* that carry exactly the four attributes of the trip.
RelsOf(st, trip) ==
    {k \in DOMAIN st.rels :
        /\ st.rels[k].start \in NodesNamed(st, trip.PULocationID)
        /\ st.rels[k].end \in NodesNamed(st, trip.DOLocationID)
        /\ st.rels[k].distance = trip.trip_distance
        /\ st.rels[k].fare = trip.fare_amount
        /\ st.rels[k].pickup_dt = trip.tpep_pickup_datetime
        /\ st.rels[k].dropoff_dt = trip.tpep_dropoff_datetime}
TwoTripCalls ==
    Len(calls) >= 2 /\ LastCall.op = "trip" /\ CallBefore.op = "trip"

\* C7: from a store with no two nodes of one name, whatever calls of
\* create_location_node and create_trip_relationship are made, the store holds
\* at most one node per name, and exactly one for the name just upserted.
C7_OneNodePerZone ==
    /\ \A k, m \in DOMAIN store.nodes : store.nodes[k] = store.nodes[m] => k = m
    /\ (calls # <<>> /\ LastCall.op = "location") => NodeCount(store, LastCall.arg) = 1

C7_UpsertedTwice ==
    /\ Len(calls) >= 2
    /\ LastCall.op = "location" /\ CallBefore.op = "location"
    /\ LastCall.arg = CallBefore.arg
    /\ NodeCount(store, LastCall.arg) = 1
    /\ store = prevStore

\* C8: with both endpoint nodes in the store, a second create_trip_relationship
\* with the same trip leaves the store as the first call left it, holding exactly
\* one relationship with those endpoints and attributes.
C8_TripIdempotent ==
    (/\ TwoTripCalls
     /\ LastCall.arg = CallBefore.arg
     /\ HasEndpoints(prevStore, LastCall.arg))
    => /\ store = prevStore
       /\ Cardinality(RelsOf(store, LastCall.arg)) = 1

C8_SameTripTwice ==
    /\ TwoTripCalls
    /\ LastCall.arg = CallBefore.arg
    /\ HasEndpoints(prevStore, LastCall.arg)
    /\ Len(store.rels) = 1

\* C9: with both endpoint nodes in the store, two create_trip_relationship calls
\* whose trips share pickup and dropoff and differ in distance, fare, pickup time
\* or dropoff time leave one relationship for each trip: two relationships
\* between the same two nodes.
C9_DistinctTrips ==
    (/\ TwoTripCalls
     /\ LastCall.arg # CallBefore.arg
     /\ LastCall.arg.PULocationID = CallBefore.arg.PULocationID
     /\ LastCall.arg.DOLocationID = CallBefore.arg.DOLocationID
     /\ HasEndpoints(prevStore, LastCall.arg))
    => /\ Cardinality(RelsOf(store, LastCall.arg)) = 1
       /\ Cardinality(RelsOf(store, CallBefore.arg)) = 1
       /\ RelsOf(store, LastCall.arg) # RelsOf(store, CallBefore.arg)

C9_FareDiffers ==
    /\ TwoTripCalls
    /\ CallBefore.arg = BaseTrip
    /\ LastCall.arg = [BaseTrip EXCEPT !.fare_amount = 1250]
    /\ HasEndpoints(prevStore, BaseTrip)
    /\ Len(store.rels) = 2
    /\ Len(prevStore.rels) = 1

\* C10: create_trip_relationship for a trip whose pickup or dropoff node is not
\* in the store ends in an error and creates no relationship.
C10_MissingEndpointRaises ==
    (/\ calls # <<>>
     /\ LastCall.op = "trip"
     /\ ~HasEndpoints(prevStore, LastCall.arg))
    => /\ outcome = "WriteError"
       /\ store = prevStore

\* ---- pipeline claims, second part
IsPrefix(s, t) == Len(s) <= Len(t) /\ SubSeq(t, 1, Len(s)) = s

RECURSIVE RunNodeLoop(_, _)
RunNodeLoop(st, ids) ==
    IF ids = <<>> THEN st ELSE RunNodeLoop(MergeLocation(st, Head(ids)), Tail(ids))

RECURSIVE RunTripLoop(_, _)
RunTripLoop(st, frame) ==
    IF frame = <<>> THEN st
    ELSE RunTripLoop(MergeTrip(st, TripOf(Head(frame))), Tail(frame))

\* The store a run leaves when its first attempt goes through without raising.
FirstAttemptStore(f) ==
    LET frame == ParseFrame(BronxFilter(ProjectColumns(f.rows)))
    IN RunTripLoop(RunNodeLoop(EmptyStore, LocationIds(frame)), frame)

\* C11: no step takes a node or a relationship out of the store (what a failed
\* attempt wrote stays), and when main succeeds, after any number of attempts
\* that failed anywhere, the write phase included, the store is the one a run
\* on the same file leaves when its first attempt succeeds: nothing is written twice.
C11_RetryIdempotent ==
    [][/\ IsPrefix(store.nodes, store'.nodes)
       /\ IsPrefix(store.rels, store'.rels)
       /\ succeeded' => store' = FirstAttemptStore(file')]_vars

C11_SucceededAfterPartialWrite ==
    /\ succeeded /\ partialWrite /\ attempt > 0
    /\ Len(store.rels) = 2
    /\ store = FirstAttemptStore(file)

\* C12: an exception raised in any phase goes straight to main's handler,
\* whatever its kind, and the handler does the same thing for every kind: one
\* more failed attempt, then one delay, then the loop test; a run that never
\* succeeds ends after exactly 10 attempts and 10 delays, and a file that is
\* missing, lacks a column or holds an unparsable retained row never succeeds.
PermanentFault ==
    \/ ~file.exists
    \/ ~(RequiredColumns \subseteq file.columns)
    \/ \E k \in DOMAIN file.rows :
          /\ KeepRow(file.rows[k])
          /\ \/ ~FormatOk(file.rows[k].tpep_pickup_datetime)
             \/ ~FormatOk(file.rows[k].tpep_dropoff_datetime)

C12_SoleErrorBoundary ==
    [][/\ (err = "none" /\ err' # "none") =>
              /\ pc' = "except"
              /\ err' \in {"ConnectivityError", "LoadError", "SchemaError",
                           "ParseError", "WriteError", "CloseError"}
       /\ pc = "except" =>
              /\ err # "none"
              /\ attempt' = attempt + 1
              /\ pc' = "sleep"
              /\ err' = "none"
       /\ pc = "sleep" => (delays' = delays + 1 /\ pc' = "loop")
       /\ pc = "loop" => pc' = IF attempt < 10 THEN "connect" ELSE "done"
       /\ (pc' = "done" /\ ~succeeded') =>
              (attempt' = 10 /\ started' = 10 /\ delays' = 10)
       /\ (pc' = "done" /\ PermanentFault) => ~succeeded']_vars

C12_PermanentParseError ==
    /\ pc = "done" /\ ~succeeded
    /\ started = 10 /\ loadRuns = 10 /\ writeRuns = 0
    /\ \E k \in DOMAIN file.rows : file.rows[k].tpep_pickup_datetime = TBad

\* C13: after a successful run on an empty store, the nodes are exactly the
\* pickup and dropoff zones of the retained rows, one node each, and the
\* relationships are exactly the distinct (pickup, dropoff, distance, fare,
\* pickup time, dropoff time) tuples of the retained rows, one each, from the
\* pickup node to the dropoff node.
RetainedRows == {k \in DOMAIN file.rows : KeepRow(file.rows[k])}

ExpectedTrip(r) ==
    [PULocationID |-> r.PULocationID, DOLocationID |-> r.DOLocationID,
     trip_distance |-> r.trip_distance, fare_amount |-> r.fare_amount,
     tpep_pickup_datetime |-> ToDatetime(r.tpep_pickup_datetime),
     tpep_dropoff_datetime |-> ToDatetime(r.tpep_dropoff_datetime)]

RetainedZones ==
    {file.rows[k].PULocationID : k \in RetainedRows}
    \cup {file.rows[k].DOLocationID : k \in RetainedRows}

C13_EndToEnd ==
    succeeded =>
        /\ \A z \in RetainedZones : NodeCount(store, z) = 1
        /\ \A n \in DOMAIN store.nodes : store.nodes[n] \in RetainedZones
        /\ \A k \in RetainedRows :
              Cardinality(RelsOf(store, ExpectedTrip(file.rows[k]))) = 1
        /\ \A e \in DOMAIN store.rels :
              \E k \in RetainedRows : e \in RelsOf(store, ExpectedTrip(file.rows[k]))
        /\ Len(store.rels) =
              Cardinality({ExpectedTrip(file.rows[k]) : k \in RetainedRows})

C13_OneRowScenario ==
    /\ succeeded
    /\ file.rows = <<Row(T0800, T0820, 3, 18, 500, 1000)>>
    /\ store.nodes = <<3, 18>>
    /\ store.rels = <<[start |-> 1, end |-> 2, distance |-> 500, fare |-> 1000,
                       pickup_dt |-> "2022-03-01T08:00:00",
                       dropoff_dt |-> "2022-03-01T08:20:00"]>>

\* C14: from an empty store, in every reachable state every node is named by
\* one of the 43 Bronx zones and every relationship joins two such nodes and
\* has a distance above 0.1 and a fare above 2.5.
C14_OnlyBronxInStore ==
    /\ Cardinality(bronx_locations) = 43
    /\ \A n \in DOMAIN store.nodes : store.nodes[n] \in bronx_locations
    /\ \A e \in DOMAIN store.rels :
          /\ store.rels[e].start \in DOMAIN store.nodes
          /\ store.rels[e].end \in DOMAIN store.nodes
          /\ store.nodes[store.rels[e].start] \in bronx_locations
          /\ store.nodes[store.rels[e].end] \in bronx_locations
          /\ store.rels[e].distance > 10
          /\ store.rels[e].fare > 250

C14_OutsideRowsKeptOut ==
    /\ pc = "except" /\ err = "WriteError"
    /\ store.rels # <<>>
    /\ \E k \in DOMAIN file.rows : file.rows[k].PULocationID = 1

\* C15: the store gets nodes only in the node loop and relationships only in
\* the trip loop, the trip loop never goes back to the node loop, and while the
\* trip loop runs the ids of the node loop hold the pickup and the dropoff zone
\* of every row of the frame and a node of each is in the store.
C15_NodesBeforeTrips ==
    [][/\ store'.nodes # store.nodes => (pc = "nodes" /\ store'.rels = store.rels)
       /\ store'.rels # store.rels => (pc = "rels" /\ store'.nodes = store.nodes)
       /\ pc = "rels" => pc' \in {"rels", "close", "except"}
       /\ pc' = "rels" =>
             \A k \in DOMAIN trips' :
                /\ trips'[k].PULocationID \in Ids(locs')
                /\ trips'[k].DOLocationID \in Ids(locs')
                /\ HasEndpoints(store', TripOf(trips'[k]))]_vars

C15_SecondTripIssued ==
    /\ pc = "rels" /\ idx = 2 /\ Len(trips) = 2
    /\ store.nodes = <<3, 18>>
    /\ Len(store.rels) = 1

\* C16: from the same store, two runs of create_location_node over the same
\* ids, in any two orders and with any repetitions, end in the same graph: the
\* same node names, each as often, and the same relationships between them.
NameBag(st) == [z \in Ids(st.nodes) |-> NodeCount(st, z)]

NamedRel(st, k) ==
    [st.rels[k] EXCEPT !.start = st.nodes[st.rels[k].start],
                       !.end = st.nodes[st.rels[k].end]]

RelBag(st) ==
    [x \in {NamedRel(st, k) : k \in DOMAIN st.rels} |->
        Cardinality({k \in DOMAIN st.rels : NamedRel(st, k) = x})]

C16_NodeUpsertsCommute ==
    (orders.a = <<>> /\ orders.b = <<>>) =>
        /\ NameBag(store) = NameBag(storeB)
        /\ RelBag(store) = RelBag(storeB)

C16_TwoOrdersOneGraph ==
    /\ pc = "commute"
    /\ orders.a = <<>> /\ orders.b = <<>>
    /\ Len(store.nodes) = 3
    /\ store.nodes # storeB.nodes
    /\ NameBag(store) = NameBag(storeB)

\* C17: an attempt goes through connect, read, project, filter, parse, session,
\* node loop, trip loop in that order; the store changes only inside the two
\* loops, on an open session; a load, column or timestamp error is raised with
\* no session opened by the attempt and the store as it was; a retained row with
\* a timestamp not in the format makes the parse raise, and past the parse the
\* frame holds every retained row, each with both timestamps parsed.
C17_PhasesInOrder ==
    [][/\ pc = "connect" => pc' \in {"read", "except"}
       /\ pc = "read" => pc' \in {"project", "except"}
       /\ pc = "project" => pc' \in {"filter", "except"}
       /\ pc = "filter" => pc' = "parse"
       /\ pc = "parse" => pc' \in {"session", "except"}
       /\ pc = "session" => pc' = "nodes"
       /\ pc = "nodes" => pc' \in {"nodes", "rels", "except"}
       /\ pc = "rels" => pc' \in {"rels", "close", "except"}
       /\ store' # store => (pc \in {"nodes", "rels"} /\ session = "open")
       /\ (err = "none" /\ err' \in {"LoadError", "SchemaError", "ParseError"}) =>
             (session' = "none" /\ store' = store)
       /\ (pc = "parse" /\ \E k \in RetainedRows :
                              \/ ~FormatOk(file.rows[k].tpep_pickup_datetime)
                              \/ ~FormatOk(file.rows[k].tpep_dropoff_datetime)) =>
             (err' = "ParseError" /\ pc' = "except")
       /\ pc' \in {"session", "nodes", "rels", "close"} =>
             /\ Len(trips') = Cardinality(RetainedRows)
             /\ \A k \in DOMAIN trips' :
                   /\ trips'[k].tpep_pickup_datetime \in {"2022-03-01T08:00:00", "2022-03-01T08:20:00"}
                   /\ trips'[k].tpep_dropoff_datetime \in {"2022-03-01T08:00:00", "2022-03-01T08:20:00"}
                   /\ \E m \in RetainedRows : TripOf(trips'[k]) = ExpectedTrip(file.rows[m])]_vars

C17_ParseErrorBeforeAnyWrite ==
    /\ pc = "except" /\ err = "ParseError"
    /\ session = "none" /\ store = EmptyStore
    /\ Len(file.rows) = 2 /\ Len(trips) = 2
    /\ trips[1].tpep_pickup_datetime = T0800
    /\ trips[2].tpep_pickup_datetime = TBad

\* C18: the session is open only inside the two loops: it is closed when the
\* with block ends and when a statement in it raises, so no attempt is over, and
\* no handler runs, with its session open.
C18_SessionReleased ==
    /\ session = "open" => pc \in {"nodes", "rels"}
    /\ pc = "close" => session = "closed"
    /\ (pc = "except" /\ err = "WriteError") => session = "closed"
    /\ AttemptOver => session # "open"

C18_ClosedAfterWriteError ==
    /\ pc = "except" /\ err = "WriteError"
    /\ session = "closed" /\ partialWrite
    /\ store.nodes # <<>>

\* C19: whenever main is not inside its handler, the delays taken are as many as
\* the attempts that failed: none before the first attempt, one after each
\* failure, the 10th included, none after a success; inside the handler the
\* delay of the failure being handled is the one still to come.
C19_DelayPerFailure ==
    /\ pc \notin {"except", "sleep"} => delays = attempt
    /\ pc = "except" => (delays = attempt /\ started = attempt + 1)
    /\ pc = "sleep" => (delays = attempt - 1 /\ started = attempt)
    /\ pc = "loop" => delays = started
    /\ (pc = "done" /\ ~succeeded) => (delays = 10 /\ started = 10)
    /\ succeeded => delays = started - 1
    /\ started = 0 => delays = 0

C19_DelayAfterTenthFailure ==
    pc = "done" /\ ~succeeded /\ attempt = 10 /\ delays = 10 /\ started = 10

====
